---- MODULE Spec2Model ----
(***************************************************************************)
(* Model of the minesweeper rules engine (src/core.rs, src/position.rs,    *)
(* src/status.rs, src/error.rs).                                           *)
(*                                                                         *)
(* The state is one Game value (its six public fields), the build profile  *)
(* the crate was compiled with, and the last call a caller made on the     *)
(* Game together with the value that call returned.  There is one action   *)
(* per method of Game; every action models the whole method, its early     *)
(* returns included.                                                       *)
(*                                                                         *)
(* usize is modelled as an unsigned integer of USIZE_BITS bits, so that    *)
(* the product width * height of the win check can leave the range of the  *)
(* type exactly as it does in the code for boards of usize::MAX cells a    *)
(* side.                                                                   *)
(***************************************************************************)
EXTENDS Integers, FiniteSets, Sequences, TLC

\* ------------------------------------------------------------------ bounds

\* Largest board side, other than usize::MAX, that a caller asks for.
MaxDim == 2

\* Largest number of cells of a board, other than the usize::MAX one.
MaxArea == 4

\* Most mines a caller places on one board.
MaxMines == 2

\* Width of usize in the model (core.rs:8 declares width: usize).
USIZE_BITS == 3

USIZE_MOD == 2 ^ USIZE_BITS

USIZE_MAX == USIZE_MOD - 1

\* The boards a caller asks for: every small board (a side of zero
\* included), and the largest one.
Boards ==
    {b \in (0 .. MaxDim) \X (0 .. MaxDim) : b[1] * b[2] <= MaxArea}
        \cup {<<USIZE_MAX, USIZE_MAX>>}

\* The coordinates of the cells of the small boards.
Coords == 0 .. MaxDim - 1

\* Position(pub(crate) usize, pub(crate) usize): field 0 is p[1], field 1 is
\* p[2].  The positions a caller passes: every cell of a small board (so
\* x == width and y == height on the narrower boards), and two positions with
\* a coordinate of usize::MAX, which lie on no board.
Position == (Coords \X Coords) \cup {<<USIZE_MAX, 0>>, <<0, USIZE_MAX>>}

\* ------------------------------------------------------------------ values

\* enum Status
Status == {"Configuration", "InProgress", "Won", "Lost"}

\* Result<_, GameError>: tag is "Ok" or the name of the GameError variant;
\* actual/expected are the two fields of IncorrectStatus; count is the u8 of
\* check_proximity.  "Panic" is a call that did not return (debug build,
\* arithmetic overflow).
Result(tag, actual, expected, count) ==
    [tag |-> tag, actual |-> actual, expected |-> expected, count |-> count]

Ok == Result("Ok", "-", "-", 0)

OkCount(n) == Result("Ok", "-", "-", n)

\* Mutant: the two fields of IncorrectStatus in the other order.
IncorrectStatus_swapped(actual, expected) ==
    Result("IncorrectStatus", expected, actual, 0)

IncorrectStatus(actual, expected) == Result("IncorrectStatus", actual, expected, 0)

ZeroFieldArea == Result("ZeroFieldArea", "-", "-", 0)

OutOfBounds == Result("OutOfBounds", "-", "-", 0)

AlreadyMined == Result("AlreadyMined", "-", "-", 0)

AlreadyOpened == Result("AlreadyOpened", "-", "-", 0)

AlreadyFlagged == Result("AlreadyFlagged", "-", "-", 0)

Panic == Result("Panic", "-", "-", 0)

NoPosition == <<0, 0>>

\* ------------------------------------------------------------------ state

VARIABLES
    constructed,       \* TRUE once Game::new returned Ok(Game)
    overflow_checks,   \* build profile: TRUE = overflow panics (debug), FALSE = it wraps (release)
    width,
    height,
    mine_positions,
    open_positions,
    flag_positions,
    status,
    op,                \* the method called last
    arg,               \* its Position argument; (width, height) for new; NoPosition for start
    arg_was_flagged,   \* arg was in flag_positions when the call was made
    res,               \* what it returned
    offset,            \* (x_dif, y_dif) of the last Position::get_relative
    relative,          \* the Position that get_relative returned
    successes          \* open() and flag() calls that returned Ok so far

game == <<width, height, mine_positions, open_positions, flag_positions, status>>

vars == <<constructed, overflow_checks, width, height, mine_positions,
          open_positions, flag_positions, status, op, arg, arg_was_flagged, res,
          offset, relative, successes>>

\* ------------------------------------------------------------------ arithmetic

\* usize arithmetic of a release build: modulo 2^USIZE_BITS.
Wrap(n) == n % USIZE_MOD

\* a * b leaves the range of usize.
MulOverflows(a, b) == a * b > USIZE_MAX

\* Mutant: the comparison against width and height, not width - 1 and
\* height - 1.
is_in_bounds_off_by_one(position) ==
    IF position[1] > width THEN FALSE
    ELSE IF position[2] > height THEN FALSE
    ELSE TRUE

\* Mutant: is_in_bounds without its check of position.1 against height.
is_in_bounds_column_only(position) ==
    IF position[1] > Wrap(width - 1) THEN FALSE
    ELSE TRUE

\* Game::is_in_bounds
is_in_bounds(position) ==
    IF position[1] > Wrap(width - 1) THEN FALSE
    ELSE IF position[2] > Wrap(height - 1) THEN FALSE
    ELSE TRUE

\* The comparison of open()/flag(): len + len == width * height, on the sets
\* as they are after the insertion.
win_condition(opened, flagged) ==
    Wrap(Cardinality(opened) + Cardinality(flagged)) = Wrap(width * height)

\* Mutant: open() leaves the flag in place.
unflag_skip(flagged, position) == flagged

\* `if self.flag_positions.contains(&position) { remove }` of open().
unflag(flagged, position) ==
    IF position \in flagged THEN flagged \ {position} ELSE flagged

\* ------------------------------------------------------------------ position.rs

\* isize of the same width as usize.
ISIZE_MIN == 0 - 2 ^ (USIZE_BITS - 1)

ISIZE_MAX == 2 ^ (USIZE_BITS - 1) - 1

\* Option<usize>::None and Option<isize>::None: a value that is no usize and
\* no isize.
None == 0 - USIZE_MOD

\* isize::checked_neg
checked_neg(d) == IF d = ISIZE_MIN THEN None ELSE 0 - d

\* Option::unwrap_or
unwrap_or(o, default) == IF o = None THEN default ELSE o

\* usize::try_from(isize), as an Option
try_into(d) == IF d < 0 THEN None ELSE d

\* usize::checked_sub
checked_sub(a, b) == IF b > a THEN None ELSE a - b

\* usize::checked_add
checked_add(a, b) == IF a + b > USIZE_MAX THEN None ELSE a + b

\* One coordinate of Position::get_relative: the Option<usize> x (or y).
relative_coordinate(c, dif) ==
    IF dif < 0
    THEN checked_sub(c, unwrap_or(try_into(unwrap_or(checked_neg(dif), 0)), 0))
    ELSE checked_add(c, unwrap_or(try_into(dif), USIZE_MAX))

\* Position::get_relative: Err(OutOfBounds) is [ok |-> FALSE].
get_relative(position, x_dif, y_dif) ==
    LET x == relative_coordinate(position[1], x_dif)
        y == relative_coordinate(position[2], y_dif)
    IN  IF x = None THEN [ok |-> FALSE, pos |-> NoPosition]
        ELSE IF y = None THEN [ok |-> FALSE, pos |-> NoPosition]
        ELSE [ok |-> TRUE, pos |-> <<x, y>>]

\* ------------------------------------------------------------------ calls

\* A Game exists and the last call on it returned.
Live == constructed /\ res.tag # "Panic"

\* Mutant: Game::new refuses a board only when both sides are zero.
new_result_both_zero(w, h) ==
    IF w = 0 /\ h = 0 THEN ZeroFieldArea ELSE Ok

\* Game::new, as the result of one call: Err(ZeroFieldArea) or Ok(Game).
new_result(w, h) ==
    IF w = 0 \/ h = 0 THEN ZeroFieldArea ELSE Ok

\* The tail shared by open() and flag(): evaluate the win check on the
\* updated sets; the multiplication panics in a build with overflow checks.
win_check(opened, flagged) ==
    IF overflow_checks /\ MulOverflows(width, height)
    THEN /\ res' = Panic
         /\ status' = status
    ELSE /\ res' = Ok
         /\ status' = IF win_condition(opened, flagged) THEN "Won" ELSE status

\* Mutant: the vector without its last offset (1, 1), (0, 1) twice instead.
relative_coordinates_no_corner ==
    << <<0 - 1, 0 - 1>>, <<0, 0 - 1>>, <<1, 0 - 1>>,
       <<0 - 1, 0>>,                   <<1, 0>>,
       <<0 - 1, 1>>,     <<0, 1>>,     <<0, 1>> >>

\* The vector relative_coordinates of check_proximity.
relative_coordinates ==
    << <<0 - 1, 0 - 1>>, <<0, 0 - 1>>, <<1, 0 - 1>>,
       <<0 - 1, 0>>,                   <<1, 0>>,
       <<0 - 1, 1>>,     <<0, 1>>,     <<1, 1>> >>

\* One turn of the loop of check_proximity: 1 if the neighbour at the given
\* offset exists, is on the board and is mined, else 0.
neighbour_mined(position, dif) ==
    LET neighbour == get_relative(position, dif[1], dif[2])
    IN  IF neighbour.ok
        THEN IF is_in_bounds(neighbour.pos) /\ neighbour.pos \in mine_positions
             THEN 1 ELSE 0
        ELSE 0

\* mine_proximity_counter after the first n turns of the loop.
RECURSIVE mine_proximity_counter(_, _)
mine_proximity_counter(position, n) ==
    IF n = 0 THEN 0
    ELSE mine_proximity_counter(position, n - 1)
         + neighbour_mined(position, relative_coordinates[n])

\* The profiles a board can tell apart: the profile shows only in the
\* multiplication of the win check, so a board whose area fits in usize is
\* explored under one profile.
Profiles(w, h) == IF MulOverflows(w, h) THEN BOOLEAN ELSE {FALSE}

\* The state after the caller's first Game::new(b[1], b[2]).
Init ==
    /\ \E b \in Boards :
        /\ res = new_result(b[1], b[2])
        /\ constructed = (res.tag = "Ok")
        /\ width = IF res.tag = "Ok" THEN b[1] ELSE 0
        /\ height = IF res.tag = "Ok" THEN b[2] ELSE 0
        /\ overflow_checks \in Profiles(b[1], b[2])
        /\ arg = b
    /\ mine_positions = {}
    /\ open_positions = {}
    /\ flag_positions = {}
    /\ status = "Configuration"
    /\ op = "new"
    /\ arg_was_flagged = FALSE
    /\ offset = <<0, 0>>
    /\ relative = NoPosition
    /\ successes = 0

\* Game::new called again after a failed construction.
new(w, h) ==
    /\ ~constructed
    /\ op' = "new"
    /\ arg' = <<w, h>>
    /\ arg_was_flagged' = FALSE
    /\ res' = new_result(w, h)
    /\ constructed' = (res'.tag = "Ok")
    /\ width' = IF res'.tag = "Ok" THEN w ELSE 0
    /\ height' = IF res'.tag = "Ok" THEN h ELSE 0
    /\ overflow_checks' \in Profiles(w, h)
    /\ mine_positions' = {}
    /\ open_positions' = {}
    /\ flag_positions' = {}
    /\ status' = "Configuration"

\* Mutant: mine() without its status gate.
mine_ungated(position) ==
    /\ Live
    /\ op' = "mine"
    /\ arg' = position
    /\ arg_was_flagged' = (position \in flag_positions)
    /\ UNCHANGED <<constructed, overflow_checks, width, height,
                   open_positions, flag_positions, status>>
    /\ IF ~is_in_bounds(position)
       THEN /\ res' = OutOfBounds
            /\ UNCHANGED mine_positions
       ELSE IF position \in mine_positions
       THEN /\ res' = AlreadyMined
            /\ UNCHANGED mine_positions
       ELSE /\ mine_positions' = mine_positions \cup {position}
            /\ res' = Ok

\* Mutant: mine() inserts the position before it checks the bounds.
mine_insert_first(position) ==
    /\ Live
    /\ op' = "mine"
    /\ arg' = position
    /\ arg_was_flagged' = (position \in flag_positions)
    /\ UNCHANGED <<constructed, overflow_checks, width, height,
                   open_positions, flag_positions, status>>
    /\ IF status # "Configuration"
       THEN /\ res' = IncorrectStatus(status, "Configuration")
            /\ UNCHANGED mine_positions
       ELSE IF position \in mine_positions
       THEN /\ res' = AlreadyMined
            /\ UNCHANGED mine_positions
       ELSE /\ mine_positions' = mine_positions \cup {position}
            /\ res' = IF ~is_in_bounds(position) THEN OutOfBounds ELSE Ok

\* Mutant: mine() without its AlreadyMined return.
mine_twice(position) ==
    /\ Live
    /\ op' = "mine"
    /\ arg' = position
    /\ arg_was_flagged' = (position \in flag_positions)
    /\ UNCHANGED <<constructed, overflow_checks, width, height,
                   open_positions, flag_positions, status>>
    /\ IF status # "Configuration"
       THEN /\ res' = IncorrectStatus(status, "Configuration")
            /\ UNCHANGED mine_positions
       ELSE IF ~is_in_bounds(position)
       THEN /\ res' = OutOfBounds
            /\ UNCHANGED mine_positions
       ELSE /\ mine_positions' = mine_positions \cup {position}
            /\ res' = Ok

\* Game::mine
mine(position) ==
    /\ Live
    /\ op' = "mine"
    /\ arg' = position
    /\ arg_was_flagged' = (position \in flag_positions)
    /\ UNCHANGED <<constructed, overflow_checks, width, height,
                   open_positions, flag_positions, status>>
    /\ IF status # "Configuration"
       THEN /\ res' = IncorrectStatus(status, "Configuration")
            /\ UNCHANGED mine_positions
       ELSE IF ~is_in_bounds(position)
       THEN /\ res' = OutOfBounds
            /\ UNCHANGED mine_positions
       ELSE IF position \in mine_positions
       THEN /\ res' = AlreadyMined
            /\ UNCHANGED mine_positions
       ELSE /\ mine_positions' = mine_positions \cup {position}
            /\ res' = Ok

\* Mutant: start() without its status gate.
start_ungated ==
    /\ Live
    /\ op' = "start"
    /\ arg' = NoPosition
    /\ arg_was_flagged' = FALSE
    /\ UNCHANGED <<constructed, overflow_checks, width, height,
                   mine_positions, open_positions, flag_positions>>
    /\ status' = "InProgress"
    /\ res' = Ok

\* Game::start
start ==
    /\ Live
    /\ op' = "start"
    /\ arg' = NoPosition
    /\ arg_was_flagged' = FALSE
    /\ UNCHANGED <<constructed, overflow_checks, width, height,
                   mine_positions, open_positions, flag_positions>>
    /\ IF status # "Configuration"
       THEN /\ res' = IncorrectStatus(status, "Configuration")
            /\ UNCHANGED status
       ELSE /\ status' = "InProgress"
            /\ res' = Ok

\* Mutant: open() records the cell as open before it looks for the mine.
open_body_inserts_first(position) ==
    /\ flag_positions' = unflag(flag_positions, position)
    /\ open_positions' = open_positions \cup {position}
    /\ IF position \in mine_positions
       THEN /\ status' = "Lost"
            /\ res' = Ok
       ELSE win_check(open_positions', flag_positions')

\* Game::open after its three early returns: drop the flag, then either lose
\* on a mine or record the cell as open and evaluate the win check.
open_body(position) ==
    /\ flag_positions' = unflag(flag_positions, position)
    /\ IF position \in mine_positions
       THEN /\ status' = "Lost"
            /\ res' = Ok
            /\ UNCHANGED open_positions
       ELSE /\ open_positions' = open_positions \cup {position}
            /\ win_check(open_positions', flag_positions')

\* Mutant: open() checks the bounds before the status.
open_bounds_first(position) ==
    /\ Live
    /\ op' = "open"
    /\ arg' = position
    /\ arg_was_flagged' = (position \in flag_positions)
    /\ UNCHANGED <<constructed, overflow_checks, width, height, mine_positions>>
    /\ IF ~is_in_bounds(position)
       THEN /\ res' = OutOfBounds
            /\ UNCHANGED <<open_positions, flag_positions, status>>
       ELSE IF status # "InProgress"
       THEN /\ res' = IncorrectStatus(status, "InProgress")
            /\ UNCHANGED <<open_positions, flag_positions, status>>
       ELSE IF position \in open_positions
       THEN /\ res' = AlreadyOpened
            /\ UNCHANGED <<open_positions, flag_positions, status>>
       ELSE open_body(position)

\* Game::open
open(position) ==
    /\ Live
    /\ op' = "open"
    /\ arg' = position
    /\ arg_was_flagged' = (position \in flag_positions)
    /\ UNCHANGED <<constructed, overflow_checks, width, height, mine_positions>>
    /\ IF status # "InProgress"
       THEN /\ res' = IncorrectStatus(status, "InProgress")
            /\ UNCHANGED <<open_positions, flag_positions, status>>
       ELSE IF ~is_in_bounds(position)
       THEN /\ res' = OutOfBounds
            /\ UNCHANGED <<open_positions, flag_positions, status>>
       ELSE IF position \in open_positions
       THEN /\ res' = AlreadyOpened
            /\ UNCHANGED <<open_positions, flag_positions, status>>
       ELSE open_body(position)

\* Game::flag after its four early returns: record the flag and evaluate the
\* win check.
flag_body(position) ==
    /\ flag_positions' = flag_positions \cup {position}
    /\ UNCHANGED open_positions
    /\ win_check(open_positions', flag_positions')

\* Mutant: flag() without its AlreadyOpened return.
flag_on_opened(position) ==
    /\ Live
    /\ op' = "flag"
    /\ arg' = position
    /\ arg_was_flagged' = (position \in flag_positions)
    /\ UNCHANGED <<constructed, overflow_checks, width, height, mine_positions>>
    /\ IF status # "InProgress"
       THEN /\ res' = IncorrectStatus(status, "InProgress")
            /\ UNCHANGED <<open_positions, flag_positions, status>>
       ELSE IF ~is_in_bounds(position)
       THEN /\ res' = OutOfBounds
            /\ UNCHANGED <<open_positions, flag_positions, status>>
       ELSE IF position \in flag_positions
       THEN /\ res' = AlreadyFlagged
            /\ UNCHANGED <<open_positions, flag_positions, status>>
       ELSE flag_body(position)

\* Game::flag
flag(position) ==
    /\ Live
    /\ op' = "flag"
    /\ arg' = position
    /\ arg_was_flagged' = (position \in flag_positions)
    /\ UNCHANGED <<constructed, overflow_checks, width, height, mine_positions>>
    /\ IF status # "InProgress"
       THEN /\ res' = IncorrectStatus(status, "InProgress")
            /\ UNCHANGED <<open_positions, flag_positions, status>>
       ELSE IF ~is_in_bounds(position)
       THEN /\ res' = OutOfBounds
            /\ UNCHANGED <<open_positions, flag_positions, status>>
       ELSE IF position \in open_positions
       THEN /\ res' = AlreadyOpened
            /\ UNCHANGED <<open_positions, flag_positions, status>>
       ELSE IF position \in flag_positions
       THEN /\ res' = AlreadyFlagged
            /\ UNCHANGED <<open_positions, flag_positions, status>>
       ELSE flag_body(position)

\* The caller stops placing mines at MaxMines: it makes no call to mine()
\* that would add one more.  Calls that fail are not restricted.
MineAllowed(position) ==
    (status = "Configuration" /\ is_in_bounds(position) /\ position \notin mine_positions)
        => Cardinality(mine_positions) < MaxMines

\* Game::check_proximity
check_proximity(position) ==
    /\ Live
    /\ op' = "check_proximity"
    /\ arg' = position
    /\ arg_was_flagged' = (position \in flag_positions)
    /\ UNCHANGED <<constructed, overflow_checks, width, height, mine_positions,
                   open_positions, flag_positions, status>>
    /\ IF status # "InProgress"
       THEN res' = IncorrectStatus(status, "InProgress")
       ELSE IF ~is_in_bounds(position)
       THEN res' = OutOfBounds
       ELSE res' = OkCount(mine_proximity_counter(position, Len(relative_coordinates)))

\* The calls on a Game, the successful plays not counted.
Next ==
    \/ \E b \in Boards : new(b[1], b[2]) /\ UNCHANGED <<offset, relative, successes>>
    \/ \E position \in Position :
          MineAllowed(position) /\ mine(position) /\ UNCHANGED <<offset, relative, successes>>
    \/ start /\ UNCHANGED <<offset, relative, successes>>
    \/ \E position \in Position : open(position) /\ UNCHANGED <<offset, relative, successes>>
    \/ \E position \in Position : flag(position) /\ UNCHANGED <<offset, relative, successes>>
    \/ \E position \in Position :
          check_proximity(position) /\ UNCHANGED <<offset, relative, successes>>

Spec == Init /\ [][Next]_vars

\* ------------------------------------------------------------------ claims

\* The step just taken was a call of one of the five methods of a Game.
Methods == {"mine", "start", "open", "flag", "check_proximity"}

\* The GameError variants a method of a Game returns.
Errors == {"IncorrectStatus", "OutOfBounds", "AlreadyMined", "AlreadyOpened", "AlreadyFlagged"}

\* The cells of the board.
Cells == {p \in Position : p[1] < width /\ p[2] < height}

\* C1: status changes only by Configuration -> InProgress, in a start() that
\* returned Ok, or by InProgress -> Won / InProgress -> Lost, in an open() or
\* flag() that returned Ok; it never goes back to Configuration, never leaves
\* Won or Lost, and never goes from Configuration to Won or Lost.
C1_StatusOnlyMovesForward ==
    [][status' # status =>
        \/ /\ status = "Configuration"
           /\ status' = "InProgress"
           /\ op' = "start"
           /\ res' = Ok
        \/ /\ status = "InProgress"
           /\ status' \in {"Won", "Lost"}
           /\ op' \in {"open", "flag"}
           /\ res' = Ok]_vars

\* C1 witness: a game that went Configuration -> InProgress -> Won, was then
\* asked to start again, and is still Won.
C1_Witness ==
    /\ status = "Won"
    /\ op = "start"
    /\ res.tag = "IncorrectStatus"
    /\ res.actual = "Won"

\* C2: no position is both open and flagged.
C2_OpenAndFlagDisjoint == open_positions \cap flag_positions = {}

\* C2 witness: flag() was refused on an open cell while other cells are flagged.
C2_Witness ==
    /\ op = "flag"
    /\ res = AlreadyOpened
    /\ arg \in open_positions
    /\ flag_positions # {}

\* C3 (as claimed): a game that is Won has as many open and flagged cells as
\* the board has cells.
C3_WonCountsEveryCell ==
    status = "Won" =>
        Cardinality(open_positions) + Cardinality(flag_positions) = width * height

\* C4: every mined, open and flagged position lies on the board.
C4_SetsInBounds ==
    \A p \in mine_positions \cup open_positions \cup flag_positions :
        /\ 0 <= p[1] /\ p[1] < width
        /\ 0 <= p[2] /\ p[2] < height

\* C4 witness: a call was refused with OutOfBounds on a game that has mined,
\* open and flagged cells.
C4_Witness ==
    /\ res = OutOfBounds
    /\ mine_positions # {}
    /\ open_positions # {}
    /\ flag_positions # {}

\* C5: once status has left Configuration, no call changes mine_positions, and
\* every mine() fails with IncorrectStatus.
C5_MinesFrozenAfterStart ==
    [][status # "Configuration" =>
        /\ mine_positions' = mine_positions
        /\ (op' = "mine" => res'.tag = "IncorrectStatus")]_vars

\* C5 witness: mine() on an unmined cell of a started game was refused.
C5_Witness ==
    /\ op = "mine"
    /\ res.tag = "IncorrectStatus"
    /\ status = "InProgress"
    /\ arg \in Cells \ mine_positions

\* C6: mine and start called in a status s other than Configuration return
\* IncorrectStatus(s, Configuration); open, flag and check_proximity called in
\* a status s other than InProgress return IncorrectStatus(s, InProgress).
C6_PhaseGate ==
    [][/\ (op' \in {"mine", "start"} /\ status # "Configuration")
            => /\ res'.tag = "IncorrectStatus"
               /\ res'.actual = status
               /\ res'.expected = "Configuration"
       /\ (op' \in {"open", "flag", "check_proximity"} /\ status # "InProgress")
            => /\ res'.tag = "IncorrectStatus"
               /\ res'.actual = status
               /\ res'.expected = "InProgress"]_vars

\* C6 witness: flag() before start() returned
\* IncorrectStatus(Configuration, InProgress).
C6_Witness ==
    /\ op = "flag"
    /\ status = "Configuration"
    /\ res.tag = "IncorrectStatus"
    /\ res.actual = "Configuration"
    /\ res.expected = "InProgress"

\* C7: a call of a method that returns an error leaves every field of the
\* Game as it was.
C7_ErrorLeavesGameUnchanged ==
    [][(op' \in Methods /\ res'.tag \in Errors) => game' = game]_vars

\* C7 witness: flag() returned AlreadyFlagged in a game with open, flagged and
\* mined cells.
C7_Witness ==
    /\ op = "flag"
    /\ res = AlreadyFlagged
    /\ arg \in flag_positions
    /\ open_positions # {}
    /\ mine_positions # {}

\* C8: open(p) of a mined cell of the board in InProgress returns Ok, sets
\* status to Lost, leaves open_positions as it was, without p, and takes p out
\* of flag_positions.
C8_OpenMineLoses ==
    [][(/\ op' = "open"
        /\ status = "InProgress"
        /\ is_in_bounds(arg')
        /\ arg' \in mine_positions)
        => /\ res' = Ok
           /\ status' = "Lost"
           /\ open_positions' = open_positions
           /\ arg' \notin open_positions'
           /\ flag_positions' = flag_positions \ {arg'}
           /\ mine_positions' = mine_positions]_vars

\* C8 witness: a flagged mine was opened in a game with other cells open and
\* flagged; the game is Lost and the mine is neither open nor flagged.
C8_Witness ==
    /\ op = "open"
    /\ res = Ok
    /\ status = "Lost"
    /\ arg \in mine_positions
    /\ arg_was_flagged
    /\ arg \notin open_positions \cup flag_positions
    /\ open_positions # {}
    /\ flag_positions # {}

\* C9: open(p) of a flagged, unmined cell of the board in InProgress returns
\* Ok, takes p out of flag_positions and puts it into open_positions, and
\* changes the membership of no other position in the three sets.
C9_OpenFlaggedCell ==
    [][(/\ op' = "open"
        /\ status = "InProgress"
        /\ is_in_bounds(arg')
        /\ arg' \in flag_positions
        /\ arg' \notin mine_positions)
        => /\ res' = Ok
           /\ flag_positions' = flag_positions \ {arg'}
           /\ open_positions' = open_positions \cup {arg'}
           /\ arg' \notin open_positions
           /\ mine_positions' = mine_positions]_vars

\* C9 witness: a flagged cell was opened while another cell stays flagged.
C9_Witness ==
    /\ op = "open"
    /\ res = Ok
    /\ arg_was_flagged
    /\ arg \in open_positions
    /\ arg \notin flag_positions
    /\ flag_positions # {}

\* C10 (as claimed): a flag(p), or an open(p) of an unmined p, that returns Ok
\* leaves status Won if the open and flagged cells are then as many as the
\* board has cells, and InProgress if they are not.
C10_WonIffEveryCellCounted ==
    [][(/\ op' \in {"open", "flag"}
        /\ status = "InProgress"
        /\ res' = Ok
        /\ ~(op' = "open" /\ arg' \in mine_positions))
        => status' =
             IF Cardinality(open_positions') + Cardinality(flag_positions') = width * height
             THEN "Won" ELSE "InProgress"]_vars

\* C11: Game::new(width, height) returns ZeroFieldArea exactly when width or
\* height is zero; otherwise it returns a Game with those sides, no mined,
\* open or flagged position, and status Configuration.
C11_NewChecksZeroArea ==
    op = "new" =>
        IF arg[1] = 0 \/ arg[2] = 0
        THEN /\ res.tag = "ZeroFieldArea"
             /\ ~constructed
        ELSE /\ res.tag = "Ok"
             /\ constructed
             /\ width = arg[1]
             /\ height = arg[2]
             /\ mine_positions = {}
             /\ open_positions = {}
             /\ flag_positions = {}
             /\ status = "Configuration"

\* C11 witness: Game::new with a positive width and a height of zero was
\* refused.
C11_Witness ==
    /\ op = "new"
    /\ arg[1] > 0
    /\ arg[2] = 0
    /\ res.tag = "ZeroFieldArea"

\* The same mine(arg) made again, with an outcome other than AlreadyMined and
\* an unchanged mine set.
RepeatedMineNotRefused ==
    /\ mine(arg)
    /\ ~(res'.tag = "AlreadyMined" /\ mine_positions' = mine_positions)
    /\ UNCHANGED <<offset, relative, successes>>

\* C12: in Configuration, mine(p) of a cell of the board that holds no mine
\* returns Ok, adds exactly p to mine_positions and changes nothing else; the
\* same mine(p) made again right after it returns AlreadyMined.
C12_MineAddsExactlyOne ==
    /\ [][(/\ op' = "mine"
           /\ status = "Configuration"
           /\ arg'[1] < width
           /\ arg'[2] < height
           /\ arg' \notin mine_positions)
          => /\ res'.tag = "Ok"
             /\ mine_positions' = mine_positions \cup {arg'}
             /\ Cardinality(mine_positions') = Cardinality(mine_positions) + 1
             /\ <<width, height, open_positions, flag_positions, status>>'
                  = <<width, height, open_positions, flag_positions, status>>]_vars
    /\ []((op = "mine" /\ res.tag = "Ok") => ~ENABLED RepeatedMineNotRefused)

\* C12 witness: the second of two mine(p) in a row returned AlreadyMined, on a
\* board that holds another mine as well.
C12_Witness ==
    /\ op = "mine"
    /\ res.tag = "AlreadyMined"
    /\ arg \in mine_positions
    /\ Cardinality(mine_positions) = 2

\* |a - b|
AbsDiff(a, b) == IF a > b THEN a - b ELSE b - a

\* The mined positions other than p that are at most one column and one row
\* away from p.
MinedNeighbours(p) ==
    {m \in mine_positions : m # p /\ AbsDiff(m[1], p[1]) <= 1 /\ AbsDiff(m[2], p[2]) <= 1}

\* C13: in InProgress, check_proximity(p) of a cell of the board returns Ok
\* with the number of mined positions other than p at most one column and one
\* row away, a number from 0 to 8, and changes no field of the Game.
C13_ProximityCountsMinedNeighbours ==
    [][(/\ op' = "check_proximity"
        /\ status = "InProgress"
        /\ arg'[1] < width
        /\ arg'[2] < height)
        => /\ res'.tag = "Ok"
           /\ res'.count = Cardinality(MinedNeighbours(arg'))
           /\ res'.count \in 0 .. 8
           /\ game' = game]_vars

\* C13 witness: check_proximity of the corner (0, 0), which has no neighbour
\* to its left or above, returned 2 with one of the two mines diagonal to it.
C13_Witness ==
    /\ op = "check_proximity"
    /\ arg = <<0, 0>>
    /\ res.tag = "Ok"
    /\ res.count = 2
    /\ <<1, 1>> \in mine_positions

\* ------------------------------------------------------------------ get_relative alone

\* Every usize and every isize.
UsizeRange == 0 .. USIZE_MAX

IsizeRange == ISIZE_MIN .. ISIZE_MAX

\* A Position and a pair of offsets are chosen; no Game is involved.
InitRelative ==
    /\ constructed = FALSE
    /\ overflow_checks = FALSE
    /\ width = 0
    /\ height = 0
    /\ mine_positions = {}
    /\ open_positions = {}
    /\ flag_positions = {}
    /\ status = "Configuration"
    /\ op = "input"
    /\ arg \in UsizeRange \X UsizeRange
    /\ arg_was_flagged = FALSE
    /\ res = Ok
    /\ offset \in IsizeRange \X IsizeRange
    /\ relative = NoPosition
    /\ successes = 0

\* One call arg.get_relative(offset.0, offset.1).
call_get_relative ==
    /\ op = "input"
    /\ op' = "get_relative"
    /\ LET r == get_relative(arg, offset[1], offset[2])
       IN  /\ res' = IF r.ok THEN Ok ELSE OutOfBounds
           /\ relative' = r.pos
    /\ UNCHANGED <<constructed, overflow_checks, width, height, mine_positions,
                   open_positions, flag_positions, status, arg, arg_was_flagged,
                   offset, successes>>

NextRelative == call_get_relative

SpecRelative == InitRelative /\ [][NextRelative]_vars

\* C14 (as claimed): get_relative(dx, dy) on Position(x, y) returns
\* Position(x + dx, y + dy) when both sums are in 0 .. usize::MAX, and
\* OutOfBounds when one is not, for every offset, isize::MIN included.
C14_GetRelativeShiftsOrFails ==
    op = "get_relative" =>
        LET x == arg[1] + offset[1]
            y == arg[2] + offset[2]
        IN  IF x \in UsizeRange /\ y \in UsizeRange
            THEN res.tag = "Ok" /\ relative = <<x, y>>
            ELSE res.tag = "OutOfBounds"

\* C15 (as claimed): every call returns Ok or one of the six GameError
\* variants, none aborts, and every win check that open() or flag() evaluates
\* compares against a product width * height that fits in usize.
C15_NoAbortNoWrappedProduct ==
    /\ res.tag \in {"Ok", "ZeroFieldArea"} \cup Errors
    /\ (/\ op \in {"open", "flag"}
        /\ res.tag = "Ok"
        /\ ~(op = "open" /\ arg \in mine_positions))
        => width * height <= USIZE_MAX

\* The position lies off the board: p.x >= width or p.y >= height.
OffBoard(p) == p[1] >= width \/ p[2] >= height

\* The call is made in the status its method requires.
InPhase(method, s) ==
    IF method = "mine" THEN s = "Configuration" ELSE s = "InProgress"

\* C16: mine, open, flag and check_proximity, called in the status they
\* require, return OutOfBounds exactly for the positions with p.x >= width or
\* p.y >= height.
C16_OutOfBoundsIffOffBoard ==
    [][(/\ op' \in {"mine", "open", "flag", "check_proximity"}
        /\ InPhase(op', status))
        => (res'.tag = "OutOfBounds" <=> OffBoard(arg'))]_vars

\* C16 witness: open() of a position with x == width and y == height - 1 was
\* refused with OutOfBounds, on a board where the cell (width - 1, height - 1)
\* has been opened or flagged.
C16_Witness ==
    /\ op = "open"
    /\ status = "InProgress"
    /\ res.tag = "OutOfBounds"
    /\ arg = <<width, height - 1>>
    /\ <<width - 1, height - 1>> \in open_positions \cup flag_positions

\* C17: the failure conditions are reported in a fixed order: a wrong status
\* as IncorrectStatus whatever the position is; then a position off the board
\* as OutOfBounds; then a mined position (mine) as AlreadyMined, an open
\* position (open, flag) as AlreadyOpened; then a flagged position (flag) as
\* AlreadyFlagged.
C17_ErrorPrecedence ==
    [][op' \in {"mine", "open", "flag"} =>
        IF ~InPhase(op', status) THEN res'.tag = "IncorrectStatus"
        ELSE IF OffBoard(arg') THEN res'.tag = "OutOfBounds"
        ELSE IF op' = "mine" /\ arg' \in mine_positions THEN res'.tag = "AlreadyMined"
        ELSE IF op' \in {"open", "flag"} /\ arg' \in open_positions
             THEN res'.tag = "AlreadyOpened"
        ELSE IF op' = "flag" /\ arg' \in flag_positions THEN res'.tag = "AlreadyFlagged"
        ELSE res'.tag \notin Errors]_vars

\* C17 witness: open() of a position off the board in Configuration returned
\* IncorrectStatus(Configuration, InProgress).
C17_Witness ==
    /\ op = "open"
    /\ status = "Configuration"
    /\ OffBoard(arg)
    /\ res.tag = "IncorrectStatus"
    /\ res.actual = "Configuration"
    /\ res.expected = "InProgress"

\* C18: no mined position is open, in any status.
C18_OpenAndMinedDisjoint == open_positions \cap mine_positions = {}

\* C18 witness: a game was lost by opening a mine after other cells had been
\* opened; the mine is not in open_positions.
C18_Witness ==
    /\ status = "Lost"
    /\ op = "open"
    /\ arg \in mine_positions
    /\ open_positions # {}
    /\ arg \notin open_positions

\* C19 (as claimed): in a game that is Won every mined position is flagged
\* and every cell of the board is open or flagged.
C19_WonCoversBoardAndFlagsMines ==
    status = "Won" =>
        /\ mine_positions \subseteq flag_positions
        /\ \A x \in 0 .. width - 1 : \A y \in 0 .. height - 1 :
              <<x, y>> \in open_positions \cup flag_positions

\* ------------------------------------------------------------------ play, counted

\* The observer of a call: one more success for an open() or flag() that
\* returned Ok.
Counted ==
    /\ successes' = IF op' \in {"open", "flag"} /\ res'.tag = "Ok"
                    THEN successes + 1 ELSE successes
    /\ UNCHANGED <<offset, relative>>

\* The calls on a Game, the successful plays counted.
NextPlay ==
    \/ \E b \in Boards : new(b[1], b[2]) /\ Counted
    \/ \E position \in Position : MineAllowed(position) /\ mine(position) /\ Counted
    \/ start /\ Counted
    \/ \E position \in Position : open(position) /\ Counted
    \/ \E position \in Position : flag(position) /\ Counted
    \/ \E position \in Position : check_proximity(position) /\ Counted

SpecPlay == Init /\ [][NextPlay]_vars

\* An open() or a flag() that returns Ok.
SucceedingPlay ==
    \E position \in Position :
        /\ open(position) \/ flag(position)
        /\ res'.tag = "Ok"
        /\ Counted

\* C20 (as claimed): at most 2 * width * height open() and flag() calls return
\* Ok in one game, and in every InProgress state some open() or flag() would
\* return Ok, so that a caller who keeps making such calls reaches Won or Lost.
C20_PlayBoundedAndNeverStuck ==
    /\ successes <= 2 * width * height
    /\ (constructed /\ status = "InProgress") => ENABLED SucceedingPlay

====
